---- MODULE Spec2Model ----
(***************************************************************************)
(* Simulation engine of the market maker simulator (app.py): MarketMaker,  *)
(* Trader and Market.                                                      *)
(*                                                                         *)
(* Numbers.  Order sizes and inventories are whole shares.  Prices, the    *)
(* profit/loss and the two coefficients k and inventory_risk are exact     *)
(* decimals written in hundredths: 100.5 is 10050, k = 0.1 is 10.  The     *)
(* product of a coefficient (hundredths) and a share count is a price in   *)
(* hundredths, so + - * of the source are + - * here, without rounding.    *)
(***************************************************************************)
EXTENDS Integers, Sequences, FiniteSets, TLC

\* ---- bounds of the model ----
\* The longest trader list, and the most orders a run executes (a run also
\* makes at most MaxOrders steps).
MaxTraders == 2
MaxOrders == 5
\* The most execute_order calls made from outside simulate_step.
MaxDirect == 1

\* Values of random.randint that are explored besides the two ends of the
\* requested range.
SampledDraws == {5}

\* MarketMaker constructor arguments that are explored (prices and
\* coefficients in hundredths): the defaults of __init__, then variations of
\* each argument.
MakerArgs ==
    { [initial_price |-> 10000, inventory |-> 0,   k |-> 10, inventory_risk |-> 5],
      [initial_price |-> 10000, inventory |-> 10,  k |-> 10, inventory_risk |-> 0],
      [initial_price |-> 100,   inventory |-> 0,   k |-> 10, inventory_risk |-> 0],
      [initial_price |-> 100,   inventory |-> -10, k |-> 0,  inventory_risk |-> 5] }

\* A strategy argument left out of Trader(...).
Omitted == "<omitted>"
StrategyArgs == {"buy", "sell", "random", "hold", Omitted}

VARIABLES
    args,           \* the arguments the objects were constructed with
    market_maker,   \* the MarketMaker object
    traders,        \* Market.traders: the Trader objects, in list order
    time_steps,     \* Market.time_steps
    pc,             \* position inside Market.simulate_step
    cur,            \* index in self.traders of the trader being processed
    order_size,     \* local variable order_size of simulate_step
    draws,          \* the values random.randint has returned in this run
    earlier         \* <<>>, or <<r>> with r the run this one repeats

vars == <<args, market_maker, traders, time_steps, pc, cur, order_size,
          draws, earlier>>

\* ---- helpers ----
RECURSIVE Sum(_)
Sum(s) == IF s = <<>> THEN 0 ELSE Head(s) + Sum(Tail(s))

Last(s) == s[Len(s)]

IsPrefix(s, t) == Len(s) <= Len(t) /\ SubSeq(t, 1, Len(s)) = s

SeqsUpTo(S, n) == UNION {[1..m -> S] : m \in 0..n}

\* ---- class MarketMaker ----
MarketMaker(initial_price, inventory, k, inventory_risk) ==
    [price             |-> initial_price,
     inventory         |-> inventory,
     k                 |-> k,
     inventory_risk    |-> inventory_risk,
     price_history     |-> <<initial_price>>,
     inventory_history |-> <<inventory>>,
     profit_loss       |-> 0,
     pnl_history       |-> <<0>>]

\* adjust_price with the impact of the order taken without its sign.
adjust_price_unsigned_impact(self, size) ==
    LET order_impact     == self.k * (IF size < 0 THEN -size ELSE size)
        inventory_impact == self.inventory_risk * self.inventory
        price_adjustment == order_impact + inventory_impact
    IN  [self EXCEPT !.price = self.price + price_adjustment]

\* adjust_price moving the price against the adjustment.
adjust_price_reversed(self, size) ==
    LET order_impact     == self.k * size
        inventory_impact == self.inventory_risk * self.inventory
        price_adjustment == order_impact + inventory_impact
    IN  [self EXCEPT !.price = self.price - price_adjustment]

adjust_price(self, size) ==
    LET order_impact     == self.k * size
        inventory_impact == self.inventory_risk * self.inventory
        price_adjustment == order_impact + inventory_impact
    IN  [self EXCEPT !.price = self.price + price_adjustment]

\* execute_order that records nothing for an order of size 0.
execute_order_skipping_zero(self, size) ==
    LET prev_price        == self.price
        adjusted          == adjust_price(self, size)
        transaction_price == adjusted.price
        inventory         == self.inventory - size
        profit_loss       == self.profit_loss
                                 + (-size) * (transaction_price - prev_price)
    IN  IF size = 0
          THEN [adjusted EXCEPT !.inventory = inventory,
                                !.profit_loss = profit_loss]
          ELSE [adjusted EXCEPT
                  !.inventory         = inventory,
                  !.profit_loss       = profit_loss,
                  !.price_history     = Append(self.price_history, adjusted.price),
                  !.inventory_history = Append(self.inventory_history, inventory),
                  !.pnl_history       = Append(self.pnl_history, profit_loss)]

\* execute_order with the sign of the profit/loss update reversed.
execute_order_sign_flipped(self, size) ==
    LET prev_price        == self.price
        adjusted          == adjust_price(self, size)
        transaction_price == adjusted.price
        inventory         == self.inventory - size
        profit_loss       == self.profit_loss
                                 + size * (transaction_price - prev_price)
    IN  [adjusted EXCEPT
            !.inventory         = inventory,
            !.profit_loss       = profit_loss,
            !.price_history     = Append(self.price_history, adjusted.price),
            !.inventory_history = Append(self.inventory_history, inventory),
            !.pnl_history       = Append(self.pnl_history, profit_loss)]

\* execute_order that updates the inventory before it adjusts the price.
execute_order_inventory_first(self, size) ==
    LET prev_price        == self.price
        inventory         == self.inventory - size
        adjusted          == adjust_price([self EXCEPT !.inventory = inventory],
                                          size)
        transaction_price == adjusted.price
        profit_loss       == self.profit_loss
                                 + (-size) * (transaction_price - prev_price)
    IN  [adjusted EXCEPT
            !.profit_loss       = profit_loss,
            !.price_history     = Append(self.price_history, adjusted.price),
            !.inventory_history = Append(self.inventory_history, inventory),
            !.pnl_history       = Append(self.pnl_history, profit_loss)]

\* execute_order that does not record the profit/loss.
execute_order_no_pnl_record(self, size) ==
    LET prev_price        == self.price
        adjusted          == adjust_price(self, size)
        transaction_price == adjusted.price
        inventory         == self.inventory - size
        profit_loss       == self.profit_loss
                                 + (-size) * (transaction_price - prev_price)
    IN  [adjusted EXCEPT
            !.inventory         = inventory,
            !.profit_loss       = profit_loss,
            !.price_history     = Append(self.price_history, adjusted.price),
            !.inventory_history = Append(self.inventory_history, inventory)]

\* execute_order that records the new values at the front of the histories.
execute_order_prepending(self, size) ==
    LET prev_price        == self.price
        adjusted          == adjust_price(self, size)
        transaction_price == adjusted.price
        inventory         == self.inventory - size
        profit_loss       == self.profit_loss
                                 + (-size) * (transaction_price - prev_price)
    IN  [adjusted EXCEPT
            !.inventory         = inventory,
            !.profit_loss       = profit_loss,
            !.price_history     = <<adjusted.price>> \o self.price_history,
            !.inventory_history = <<inventory>> \o self.inventory_history,
            !.pnl_history       = <<profit_loss>> \o self.pnl_history]

\* execute_order adding the order size to the market maker's inventory.
execute_order_inventory_added(self, size) ==
    LET prev_price        == self.price
        adjusted          == adjust_price(self, size)
        transaction_price == adjusted.price
        inventory         == self.inventory + size
        profit_loss       == self.profit_loss
                                 + (-size) * (transaction_price - prev_price)
    IN  [adjusted EXCEPT
            !.inventory         = inventory,
            !.profit_loss       = profit_loss,
            !.price_history     = Append(self.price_history, adjusted.price),
            !.inventory_history = Append(self.inventory_history, inventory),
            !.pnl_history       = Append(self.pnl_history, profit_loss)]

\* execute_order recording the price it found instead of the new one.
execute_order_recording_prev_price(self, size) ==
    LET prev_price        == self.price
        adjusted          == adjust_price(self, size)
        transaction_price == adjusted.price
        inventory         == self.inventory - size
        profit_loss       == self.profit_loss
                                 + (-size) * (transaction_price - prev_price)
    IN  [adjusted EXCEPT
            !.inventory         = inventory,
            !.profit_loss       = profit_loss,
            !.price_history     = Append(self.price_history, prev_price),
            !.inventory_history = Append(self.inventory_history, inventory),
            !.pnl_history       = Append(self.pnl_history, profit_loss)]

execute_order(self, size) ==
    LET prev_price        == self.price
        adjusted          == adjust_price(self, size)
        transaction_price == adjusted.price
        inventory         == self.inventory - size
        profit_loss       == self.profit_loss
                                 + (-size) * (transaction_price - prev_price)
    IN  [adjusted EXCEPT
            !.inventory         = inventory,
            !.profit_loss       = profit_loss,
            !.price_history     = Append(self.price_history, adjusted.price),
            !.inventory_history = Append(self.inventory_history, inventory),
            !.pnl_history       = Append(self.pnl_history, profit_loss)]

\* ---- class Trader ----
\* A default strategy outside buy, sell and random.
DefaultStrategyNeutral == "neutral"

DefaultStrategy == "random"

Trader(trader_id, strategy) ==
    [trader_id           |-> trader_id,
     strategy            |-> IF strategy = Omitted THEN DefaultStrategy
                                                   ELSE strategy,
     order_history       |-> <<>>,
     trade_price_history |-> <<>>,
     inventory           |-> 0]

\* random.randint(a, b): an integer of a..b, both ends included.
randint(a, b) == {n \in a..b : n \in {a, b} \cup SampledDraws}

\* The strategies for which decide_order calls random.randint.
DrawingStrategies == {"buy", "sell", "random"}

\* What the random.randint call of decide_order can return, by strategy.
randint_of(strategy) ==
    IF strategy = "buy" THEN randint(1, 10)
    ELSE IF strategy = "sell" THEN randint(1, 10)
    ELSE randint(-10, 10)

\* order_size_of with a sell order left positive.
order_size_of_sell_unsigned(strategy, rnd) ==
    IF strategy = "buy" THEN rnd
    ELSE IF strategy = "sell" THEN rnd
    ELSE IF strategy = "random" THEN rnd
    ELSE 0

\* order_size_of with one share ordered under any other strategy.
order_size_of_default_one(strategy, rnd) ==
    IF strategy = "buy" THEN rnd
    ELSE IF strategy = "sell" THEN -rnd
    ELSE IF strategy = "random" THEN rnd
    ELSE 1

\* order_size as decide_order computes it from rnd, the value its
\* random.randint call returned (not used when no call is made).
order_size_of(strategy, rnd) ==
    IF strategy = "buy" THEN rnd
    ELSE IF strategy = "sell" THEN -rnd
    ELSE IF strategy = "random" THEN rnd
    ELSE 0

\* The trader after decide_order; it returns order_size_of(strategy, rnd).
decide_order(self, rnd) ==
    [self EXCEPT !.order_history =
                    Append(self.order_history, order_size_of(self.strategy, rnd))]

\* record_trade with the sign convention of the market maker's inventory.
record_trade_dealer_sign(self, size, price) ==
    [self EXCEPT !.trade_price_history = Append(self.trade_price_history, price),
                 !.inventory = self.inventory - size]

record_trade(self, size, price) ==
    [self EXCEPT !.trade_price_history = Append(self.trade_price_history, price),
                 !.inventory = self.inventory + size]

\* ---- class Market ----
TypeOK ==
    /\ time_steps \in 0..MaxOrders
    /\ pc \in {"idle", "decide", "execute", "record"}
    /\ cur \in 0..Len(traders)
    /\ order_size \in -10..10
    /\ Len(traders) <= MaxTraders

\* traders = [Trader(trader_id=i+1, strategy=...) for i in range(num_traders)]
Traders(strategies) ==
    [n \in 1..Len(strategies) |-> Trader(n, strategies[n])]

Init ==
    /\ args \in [maker : MakerArgs,
                 strategies : SeqsUpTo(StrategyArgs, MaxTraders)]
    /\ market_maker = MarketMaker(args.maker.initial_price, args.maker.inventory,
                                  args.maker.k, args.maker.inventory_risk)
    /\ traders = Traders(args.strategies)
    /\ time_steps = 0
    /\ pc = "idle"
    /\ cur = 0
    /\ order_size = 0
    /\ draws = <<>>
    /\ earlier = <<>>

\* simulate_step that records a tick of the market maker when there is no
\* trader.
SimulateStepRecordingTick ==
    /\ pc = "idle"
    /\ time_steps < (IF earlier = <<>> THEN MaxOrders ELSE earlier[1].time_steps)
    /\ (time_steps + 1) * Len(traders) <= MaxOrders
    /\ time_steps' = time_steps + 1
    /\ IF Len(traders) = 0
         THEN /\ pc' = "idle" /\ cur' = 0
              /\ market_maker' = execute_order(market_maker, 0)
         ELSE /\ pc' = "decide" /\ cur' = 1
              /\ UNCHANGED market_maker
    /\ UNCHANGED <<args, traders, order_size, draws, earlier>>

\* simulate_step is called: the counter is incremented and the loop over
\* self.traders starts (and ends at once when the list is empty).
SimulateStep ==
    /\ pc = "idle"
    /\ time_steps < (IF earlier = <<>> THEN MaxOrders ELSE earlier[1].time_steps)
    /\ (time_steps + 1) * Len(traders) <= MaxOrders
    /\ time_steps' = time_steps + 1
    /\ IF Len(traders) = 0
         THEN pc' = "idle" /\ cur' = 0
         ELSE pc' = "decide" /\ cur' = 1
    /\ UNCHANGED <<args, market_maker, traders, order_size, draws, earlier>>

\* The values the next random.randint call can return: any value of the
\* range, or, in a run that repeats an earlier one, the value the earlier
\* run drew at the same position.
NextDraws(strategy) ==
    IF earlier = <<>> THEN randint_of(strategy)
    ELSE {earlier[1].draws[Len(draws) + 1]}

\* decide_order appending to an order history that all traders share.
DecideOrderSharedHistory ==
    /\ pc = "decide"
    /\ LET strategy == traders[cur].strategy
           shared(size) == [n \in 1..Len(traders) |->
                              [traders[n] EXCEPT !.order_history =
                                                    Append(@, size)]]
       IN
         IF strategy \in DrawingStrategies
           THEN \E rnd \in NextDraws(strategy) :
                   /\ traders' = shared(order_size_of(strategy, rnd))
                   /\ order_size' = order_size_of(strategy, rnd)
                   /\ draws' = Append(draws, rnd)
           ELSE /\ traders' = shared(order_size_of(strategy, 0))
                /\ order_size' = order_size_of(strategy, 0)
                /\ UNCHANGED draws
    /\ pc' = "execute"
    /\ UNCHANGED <<args, market_maker, time_steps, cur, earlier>>

\* order_size = trader.decide_order()
DecideOrder ==
    /\ pc = "decide"
    /\ LET strategy == traders[cur].strategy IN
         IF strategy \in DrawingStrategies
           THEN \E rnd \in NextDraws(strategy) :
                   /\ traders' = [traders EXCEPT ![cur] = decide_order(@, rnd)]
                   /\ order_size' = order_size_of(strategy, rnd)
                   /\ draws' = Append(draws, rnd)
           ELSE /\ traders' = [traders EXCEPT ![cur] = decide_order(@, 0)]
                /\ order_size' = order_size_of(strategy, 0)
                /\ UNCHANGED draws
    /\ pc' = "execute"
    /\ UNCHANGED <<args, market_maker, time_steps, cur, earlier>>

\* execute_order refusing an order that would make the price negative.
ExecuteOrderRejectingNegative ==
    /\ pc = "execute"
    /\ adjust_price(market_maker, order_size).price >= 0
    /\ market_maker' = execute_order(market_maker, order_size)
    /\ pc' = "record"
    /\ UNCHANGED <<args, traders, time_steps, cur, order_size, draws, earlier>>

\* self.market_maker.execute_order(order_size)
ExecuteOrder ==
    /\ pc = "execute"
    /\ market_maker' = execute_order(market_maker, order_size)
    /\ pc' = "record"
    /\ UNCHANGED <<args, traders, time_steps, cur, order_size, draws, earlier>>

\* The loop body passing record_trade the price quoted before execute_order.
RecordTradeQuotedBefore ==
    /\ pc = "record"
    /\ traders' = [traders EXCEPT
                      ![cur] = record_trade(@, order_size,
                                  market_maker.price_history[
                                      Len(market_maker.price_history) - 1])]
    /\ IF cur < Len(traders)
         THEN pc' = "decide" /\ cur' = cur + 1 /\ UNCHANGED order_size
         ELSE pc' = "idle" /\ cur' = 0 /\ order_size' = 0
    /\ UNCHANGED <<args, market_maker, time_steps, draws, earlier>>

\* The loop body returning from simulate_step after its first trader.
RecordTradeReturningEarly ==
    /\ pc = "record"
    /\ traders' = [traders EXCEPT
                      ![cur] = record_trade(@, order_size, market_maker.price)]
    /\ pc' = "idle" /\ cur' = 0 /\ order_size' = 0
    /\ UNCHANGED <<args, market_maker, time_steps, draws, earlier>>

\* The loop body with the step counter incremented inside the loop.
RecordTradeCountingTicks ==
    /\ pc = "record"
    /\ traders' = [traders EXCEPT
                      ![cur] = record_trade(@, order_size, market_maker.price)]
    /\ time_steps' = time_steps + 1
    /\ IF cur < Len(traders)
         THEN pc' = "decide" /\ cur' = cur + 1 /\ UNCHANGED order_size
         ELSE pc' = "idle" /\ cur' = 0 /\ order_size' = 0
    /\ UNCHANGED <<args, market_maker, draws, earlier>>

\* trader.record_trade(order_size, self.market_maker.price), then the next
\* trader of the list, or the return of simulate_step after the last one.
RecordTrade ==
    /\ pc = "record"
    /\ traders' = [traders EXCEPT
                      ![cur] = record_trade(@, order_size, market_maker.price)]
    /\ IF cur < Len(traders)
         THEN pc' = "decide" /\ cur' = cur + 1 /\ UNCHANGED order_size
         ELSE pc' = "idle" /\ cur' = 0 /\ order_size' = 0
    /\ UNCHANGED <<args, market_maker, time_steps, draws, earlier>>

Next == SimulateStep \/ DecideOrder \/ ExecuteOrder \/ RecordTrade

Spec == Init /\ [][Next]_vars

\* A second run that keeps the MarketMaker object of the run before.
RerunKeepingMarketMaker ==
    /\ pc = "idle"
    /\ earlier = <<>>
    /\ time_steps >= 1
    /\ earlier' = <<[market_maker |-> market_maker, traders |-> traders,
                     time_steps |-> time_steps, draws |-> draws]>>
    /\ traders' = Traders(args.strategies)
    /\ time_steps' = 0
    /\ draws' = <<>>
    /\ UNCHANGED <<args, market_maker, pc, cur, order_size>>

\* A second run with the same parameters: the objects are constructed anew
\* from the same arguments, and random.randint will return again what it
\* returned in the run that just ended (the same seed).
Rerun ==
    /\ pc = "idle"
    /\ earlier = <<>>
    /\ time_steps >= 1
    /\ earlier' = <<[market_maker |-> market_maker, traders |-> traders,
                     time_steps |-> time_steps, draws |-> draws]>>
    /\ market_maker' = MarketMaker(args.maker.initial_price,
                                   args.maker.inventory,
                                   args.maker.k, args.maker.inventory_risk)
    /\ traders' = Traders(args.strategies)
    /\ time_steps' = 0
    /\ draws' = <<>>
    /\ UNCHANGED <<args, pc, cur, order_size>>

NextRerun == Next \/ Rerun

SpecRerun == Init /\ [][NextRerun]_vars

\* Order sizes of the execute_order calls made on the market maker from
\* outside simulate_step.
DirectSizes == {-10, 0}

\* market_maker.execute_order(size) called directly, between two steps (the
\* engine is single-threaded, so not during one).
DirectExecuteOrder ==
    /\ pc = "idle"
    /\ earlier = <<>>
    /\ Len(market_maker.price_history) - 1 - time_steps * Len(traders) < MaxDirect
    /\ \E size \in DirectSizes :
          market_maker' = execute_order(market_maker, size)
    /\ UNCHANGED <<args, traders, time_steps, pc, cur, order_size, draws,
                   earlier>>

NextDirect == Next \/ DirectExecuteOrder

\* The markets on which direct calls are explored: at most one trader.
InitDirect == Init /\ Len(args.strategies) <= 1

SpecDirect == InitDirect /\ [][NextDirect]_vars


\* ---- properties ----
Maker == args.maker

Completed == pc = "idle"

HistoryLengths(n) ==
    /\ Len(market_maker.price_history) = n
    /\ Len(market_maker.inventory_history) = n
    /\ Len(market_maker.pnl_history) = n

\* C1: after N completed simulate_step calls on a freshly constructed market
\* of M traders, the three histories of the market maker all have
\* N*M + 1 entries.
C1_HistoryLengths ==
    Completed => HistoryLengths(time_steps * Len(traders) + 1)

C1_Witness ==
    /\ Completed
    /\ time_steps >= 2
    /\ Len(traders) >= 2
    /\ Len(market_maker.pnl_history) >= 5

\* C2: every execute_order(s) changes profit_loss by -s times the change of
\* the price, the price before being the one on entry and the price after
\* the one adjust_price has set.
C2_PnlIdentity ==
    [][pc = "execute" =>
          market_maker'.profit_loss - market_maker.profit_loss
              = (-order_size) * (market_maker'.price - market_maker.price)]_vars

C2_Witness ==
    /\ pc = "record"
    /\ order_size = -5
    /\ Len(market_maker.pnl_history) >= 3
    /\ market_maker.profit_loss # market_maker.pnl_history[Len(market_maker.pnl_history) - 1]

\* C3: traders [A, B], A buying 5 and B selling 5, k = 0.1, no inventory
\* risk, initial price 100: after step 1 the price history is
\* 100, 100.5, 100.0.
C3_Scenario ==
    /\ args.strategies = <<"buy", "sell">>
    /\ Maker.k = 10
    /\ Maker.inventory_risk = 0
    /\ Maker.initial_price = 10000
    /\ Completed
    /\ time_steps = 1
    /\ traders[1].order_history = <<5>>
    /\ traders[2].order_history = <<-5>>

C3_IntraStepOrdering ==
    C3_Scenario => market_maker.price_history = <<10000, 10050, 10000>>

C3_Witness == C3_Scenario /\ Len(market_maker.price_history) = 3

Unrecognized(n) == traders[n].strategy \notin DrawingStrategies

AllZero(s) == \A j \in 1..Len(s) : s[j] = 0

\* C4 as stated: a trader with an unrecognized strategy only orders 0, and
\* alone in the market it never changes the price or the inventory of the
\* market maker, whatever the arguments of the market maker.
C4_AsStated ==
    /\ \A n \in 1..Len(traders) :
          Unrecognized(n) => AllZero(traders[n].order_history)
    /\ (Len(traders) = 1 /\ Unrecognized(1)) =>
          /\ market_maker.price = Maker.initial_price
          /\ market_maker.inventory = Maker.inventory

\* C4 amended: a trader with an unrecognized strategy only orders 0; alone
\* in the market it never changes the inventory of the market maker, and
\* each of its orders moves the price by inventory_risk * inventory, so the
\* price keeps its initial value exactly when that product is 0.
C4_UnknownStrategy ==
    /\ \A n \in 1..Len(traders) :
          Unrecognized(n) => AllZero(traders[n].order_history)
    /\ (Len(traders) = 1 /\ Unrecognized(1)) =>
          /\ market_maker.inventory = Maker.inventory
          /\ market_maker.price =
                Maker.initial_price
                  + (Len(market_maker.price_history) - 1)
                      * (Maker.inventory_risk * Maker.inventory)
          /\ (Maker.inventory_risk * Maker.inventory = 0
                 => market_maker.price = Maker.initial_price)

C4_Witness ==
    /\ Len(traders) = 1
    /\ args.strategies[1] = "hold"
    /\ Completed
    /\ time_steps = 2
    /\ traders[1].order_history = <<0, 0>>
    /\ Maker.inventory # 0
    /\ Maker.inventory_risk = 0
    /\ market_maker.price = Maker.initial_price

DefaultConstructed(n) == args.strategies[n] = Omitted

\* C5 as stated: a trader constructed without a strategy only orders 0.
C5_AsStated ==
    \A n \in 1..Len(traders) :
        DefaultConstructed(n) => AllZero(traders[n].order_history)

\* C5 amended: a trader constructed without a strategy has the strategy
\* random: every order size it decides lies in -10..10 (0 is one value among
\* them, not the only one), and each is appended to its order history.
C5_DefaultStrategy ==
    \A n \in 1..Len(traders) :
        DefaultConstructed(n) =>
            /\ traders[n].strategy = "random"
            /\ \A j \in 1..Len(traders[n].order_history) :
                  traders[n].order_history[j] \in -10..10
            /\ (pc = "execute" /\ cur = n) =>
                  /\ Len(traders[n].order_history) = time_steps
                  /\ Last(traders[n].order_history) = order_size

C5_Witness ==
    /\ pc = "execute"
    /\ DefaultConstructed(cur)
    /\ order_size = 10
    /\ traders[cur].order_history = <<-10, 10>>

\* C6: after any number of completed steps every trader's inventory is the
\* sum of its order history.
C6_TraderInventory ==
    Completed =>
        \A n \in 1..Len(traders) :
            traders[n].inventory = Sum(traders[n].order_history)

C6_Witness ==
    /\ Completed
    /\ time_steps >= 2
    /\ \E n \in 1..Len(traders) :
          /\ traders[n].inventory = 15
          /\ traders[n].order_history = <<5, 10>>

InRange(s, lo, hi) == \A j \in 1..Len(s) : s[j] \in lo..hi

\* C7: every entry of the order history of a buy trader lies in 1..10, of a
\* sell trader in -10..-1, of a random trader in -10..10.
C7_StrategyBounds ==
    \A n \in 1..Len(traders) :
        /\ traders[n].strategy = "buy" => InRange(traders[n].order_history, 1, 10)
        /\ traders[n].strategy = "sell" => InRange(traders[n].order_history, -10, -1)
        /\ traders[n].strategy = "random" => InRange(traders[n].order_history, -10, 10)

C7_Witness ==
    /\ Len(traders) >= 2
    /\ traders[1].strategy = "sell"
    /\ traders[1].order_history = <<-1, -10>>
    /\ traders[2].strategy = "buy"
    /\ traders[2].order_history = <<10, 1>>

\* C8: in a market without traders every simulate_step call returns at once:
\* it adds one to time_steps, leaves the market maker as constructed, with
\* histories of one entry, and is possible again afterwards.
C8_ZeroTraders ==
    [][Len(traders) = 0 =>
          /\ time_steps' = time_steps + 1
          /\ pc' = "idle"
          /\ market_maker' = market_maker
          /\ HistoryLengths(1)'
          /\ market_maker'.price = Maker.initial_price
          /\ market_maker'.inventory = Maker.inventory
          /\ market_maker'.profit_loss = 0]_vars

C8_Witness ==
    /\ Len(traders) = 0
    /\ time_steps >= 2
    /\ Completed
    /\ HistoryLengths(1)

C10_TradePrices ==
    LET M == Len(traders) IN
    /\ \A n \in 1..M :
          \A t \in 1..Len(traders[n].trade_price_history) :
              traders[n].trade_price_history[t]
                  = market_maker.price_history[(t - 1) * M + n + 1]
    /\ pc # "idle" =>
          /\ \A n \in 1..M :
                /\ Len(traders[n].order_history) =
                      IF n < cur \/ (n = cur /\ pc # "decide")
                        THEN time_steps ELSE time_steps - 1
                /\ Len(traders[n].trade_price_history) =
                      IF n < cur THEN time_steps ELSE time_steps - 1
          /\ Len(market_maker.price_history) =
                (time_steps - 1) * M + cur + (IF pc = "record" THEN 1 ELSE 0)

C10_Witness ==
    /\ Completed
    /\ time_steps = 2
    /\ Len(traders) = 2
    /\ traders[1].trade_price_history = <<10100, 10050>>
    /\ traders[2].trade_price_history = <<10000, 10150>>
    /\ market_maker.price_history = <<10000, 10100, 10000, 10050, 10150>>

\* The number of execute_order calls made so far (each has recorded one
\* price after the seed entry).
Executed == Len(market_maker.price_history) - 1

\* C11: every simulate_step call activates every trader exactly once, in
\* list order: the trader whose order is about to be executed as call number
\* Executed + 1 is the one at position (Executed mod M) + 1 of the list, so
\* the ids of the callers are the list repeated; after a completed step every
\* trader has decided, and the market maker executed, one order per step.
C11_ActivationOrder ==
    LET M == Len(traders)
        \* the calls completed before the one of the trader being processed
        before == IF pc = "record" THEN Executed - 1 ELSE Executed
    IN
    /\ pc # "idle" =>
          /\ cur = (before % M) + 1
          /\ traders[cur].trader_id = cur
          /\ time_steps = (before \div M) + 1
    /\ Completed =>
          /\ Executed = time_steps * M
          /\ \A n \in 1..M : Len(traders[n].order_history) = time_steps

C11_Witness ==
    /\ pc = "execute"
    /\ Len(traders) = 2
    /\ cur = 2
    /\ time_steps = 2
    /\ Executed = 3
    /\ traders[cur].trader_id = 2

\* C12: every execute_order(s) leaves price = price before + k*s +
\* inventory_risk * inventory before, and inventory = inventory before - s:
\* the inventory term is the inventory as it was before this order.
C12_PriceUpdate ==
    [][pc = "execute" =>
          /\ market_maker'.price =
                market_maker.price + market_maker.k * order_size
                    + market_maker.inventory_risk * market_maker.inventory
          /\ market_maker'.inventory = market_maker.inventory - order_size]_vars

C12_Witness ==
    /\ pc = "record"
    /\ order_size # 0
    /\ market_maker.inventory_risk # 0
    /\ market_maker.k # 0
    /\ Executed >= 2
    /\ market_maker.inventory_history[Executed] # 0
    /\ market_maker.inventory # 0

EqualLengths ==
    /\ Len(market_maker.price_history) = Len(market_maker.inventory_history)
    /\ Len(market_maker.price_history) = Len(market_maker.pnl_history)

\* C13: outside an execute_order call the three histories of the market
\* maker have the same length, and every execute_order call, made by
\* simulate_step or directly, with any order size, 0 included, lengthens each
\* of the three by exactly one entry (the calls being the steps taken at
\* "execute" and the only other steps that change the market maker).
C13_HistoriesGrowTogether ==
    /\ []EqualLengths
    /\ [][(pc = "execute" \/ market_maker' # market_maker) =>
             /\ Len(market_maker'.price_history)
                   = Len(market_maker.price_history) + 1
             /\ Len(market_maker'.inventory_history)
                   = Len(market_maker.inventory_history) + 1
             /\ Len(market_maker'.pnl_history)
                   = Len(market_maker.pnl_history) + 1]_vars

C13_Witness ==
    /\ Len(traders) = 1
    /\ traders[1].strategy = "buy"
    /\ Completed
    /\ time_steps = 2
    /\ HistoryLengths(4)
    /\ market_maker.inventory_history[2] = market_maker.inventory_history[3]

\* C14: time_steps counts the simulate_step calls (a call, taken when no
\* step is running, adds one; nothing else changes it) and so never
\* decreases; after each completed step every trader has time_steps entries
\* in its order history and in its trade price history.
C14_StepCounter ==
    /\ [](Completed =>
            \A n \in 1..Len(traders) :
                /\ Len(traders[n].order_history) = time_steps
                /\ Len(traders[n].trade_price_history) = time_steps)
    /\ [][/\ time_steps' >= time_steps
          /\ pc = "idle" => time_steps' = time_steps + 1
          /\ pc # "idle" => time_steps' = time_steps]_vars

C14_Witness ==
    /\ Completed
    /\ time_steps = 2
    /\ Len(traders) = 2
    /\ \A n \in 1..2 :
          /\ Len(traders[n].order_history) = 2
          /\ Len(traders[n].trade_price_history) = 2

\* C15: the three histories of the market maker and the two histories of
\* every trader are append-only: across every transition the old sequence is
\* a prefix of the new one.
C15_AppendOnly ==
    [][/\ IsPrefix(market_maker.price_history, market_maker'.price_history)
       /\ IsPrefix(market_maker.inventory_history, market_maker'.inventory_history)
       /\ IsPrefix(market_maker.pnl_history, market_maker'.pnl_history)
       /\ \A n \in 1..Len(traders) :
             /\ IsPrefix(traders[n].order_history, traders'[n].order_history)
             /\ IsPrefix(traders[n].trade_price_history,
                         traders'[n].trade_price_history)]_vars

C15_Witness ==
    /\ Completed
    /\ time_steps >= 2
    /\ Len(traders) >= 1
    /\ traders[1].order_history = <<10, 5>>
    /\ Len(traders[1].trade_price_history) = 2
    /\ traders[1].trade_price_history[1] # traders[1].trade_price_history[2]
    /\ market_maker.price_history[2] # market_maker.price_history[3]
    /\ market_maker.pnl_history[2] # market_maker.pnl_history[3]

\* C16: decide_order and record_trade change no field of the market maker
\* and no field of another trader; execute_order changes no trader and
\* leaves k and inventory_risk as they are; the price changes only in
\* execute_order.
C16_Frame ==
    [][/\ pc \in {"decide", "record"} =>
             /\ market_maker' = market_maker
             /\ \A n \in 1..Len(traders) : n # cur => traders'[n] = traders[n]
       /\ pc = "execute" =>
             /\ traders' = traders
             /\ market_maker'.k = market_maker.k
             /\ market_maker'.inventory_risk = market_maker.inventory_risk
       /\ market_maker'.price # market_maker.price => pc = "execute"]_vars

C16_Witness ==
    /\ Completed
    /\ time_steps >= 1
    /\ Len(traders) = 2
    /\ traders[1].order_history # traders[2].order_history
    /\ traders[1].inventory # traders[2].inventory
    /\ market_maker.price # Maker.initial_price
    /\ market_maker.k = Maker.k
    /\ market_maker.inventory_risk = Maker.inventory_risk

\* C17: execute_order is total: whenever simulate_step is about to call it,
\* with whatever order size and from whatever state, a negative price or
\* inventory included, the call is possible and the step then goes on; a
\* negative price is reached (by repeated sell orders with k > 0) and does
\* not stop the run.
C17_Total ==
    /\ pc = "execute" => ENABLED ExecuteOrder
    /\ pc # "idle" => ENABLED Next

C17_Witness ==
    /\ pc = "record"
    /\ market_maker.k > 0
    /\ order_size < 0
    /\ market_maker.price < 0
    /\ market_maker.price_history[Executed] < 0

TraderInventories == Sum([n \in 1..Len(traders) |-> traders[n].inventory])

\* C18: after every completed trader activation, hence after every completed
\* step, the inventory of the market maker plus the inventories of all
\* traders is the initial inventory of the market maker (between
\* execute_order and record_trade the order in flight is missing from it).
C18_StockConservation ==
    /\ pc \in {"idle", "decide", "execute"} =>
          market_maker.inventory + TraderInventories = Maker.inventory
    /\ pc = "record" =>
          market_maker.inventory + TraderInventories
              = Maker.inventory - order_size

C18_Witness ==
    /\ Completed
    /\ time_steps >= 2
    /\ Len(traders) = 2
    /\ Maker.inventory # 0
    /\ market_maker.inventory # Maker.inventory
    /\ traders[1].inventory > 0
    /\ traders[2].inventory < 0

\* C19: with inventory_risk = 0 and k >= 0 every execute_order(s) changes
\* the profit/loss by -k*s*s: the profit/loss never increases, and every
\* entry of the pnl history is <= 0 and <= the entry before it.
C19_PnlNonIncreasing ==
    (market_maker.inventory_risk = 0 /\ market_maker.k >= 0) =>
        /\ market_maker.profit_loss <= 0
        /\ \A j \in 1..Executed :
              LET s == market_maker.inventory_history[j]
                          - market_maker.inventory_history[j + 1]
              IN  /\ market_maker.pnl_history[j + 1]
                        = market_maker.pnl_history[j] - market_maker.k * s * s
                  /\ market_maker.pnl_history[j + 1] <= market_maker.pnl_history[j]
                  /\ market_maker.pnl_history[j + 1] <= 0

C19_Witness ==
    /\ market_maker.inventory_risk = 0
    /\ market_maker.k > 0
    /\ Executed >= 3
    /\ market_maker.pnl_history[2] < 0
    /\ market_maker.pnl_history[3] < market_maker.pnl_history[2]
    /\ market_maker.pnl_history[4] < market_maker.pnl_history[3]
    /\ market_maker.inventory_history[2] < market_maker.inventory_history[1]
    /\ market_maker.inventory_history[3] > market_maker.inventory_history[2]

\* C20: outside an execute_order call the last entry of each history is the
\* current price, inventory and profit/loss, and the first entries are the
\* initial price, the initial inventory and 0.
C20_HistoryEnds ==
    /\ Last(market_maker.price_history) = market_maker.price
    /\ Last(market_maker.inventory_history) = market_maker.inventory
    /\ Last(market_maker.pnl_history) = market_maker.profit_loss
    /\ market_maker.price_history[1] = Maker.initial_price
    /\ market_maker.inventory_history[1] = Maker.inventory
    /\ market_maker.pnl_history[1] = 0

C20_Witness ==
    /\ Executed >= 3
    /\ market_maker.price # Maker.initial_price
    /\ market_maker.price # market_maker.price_history[Executed]
    /\ market_maker.inventory # Maker.inventory
    /\ market_maker.profit_loss # 0
    /\ Maker.inventory # 0

====
